---- MODULE Spec2Model ----
(***************************************************************************)
(* A model of two components of the agent core:                            *)
(*   - SummarizeFileTool (packages/core/src/tools/summarize-file.ts):      *)
(*     validateToolParams and execute, with every collaborator call logged *)
(*   - getCoreSystemPrompt (packages/core/src/core/prompts.ts): the        *)
(*     override switch, the write switch and the memory suffix, over a     *)
(*     small file system.                                                  *)
(* Strings are sequences of tokens (a token is one character or one        *)
(* indivisible piece of text); concatenation is \o.                        *)
(***************************************************************************)
EXTENDS Integers, Sequences, FiniteSets, TLC

VARIABLES
    \* ---- SummarizeFileTool ----
    wsDirs,          \* config.getWorkspaceContext().getDirectories()
    ignorePatterns,  \* the patterns config.getFileService() ignores
    pc,              \* "idle" | "acquiring" (suspended at the await) | "done"
    op,              \* "none" | "validate" | "execute": the call in progress / finished
    params,          \* the parameter object of that call
    calls,           \* the collaborator calls made by that call, in order
    validation,      \* the value validateToolParams returned in that call
    acq,             \* what processSingleFileContent resolved with
    metricFailed,    \* recordFileOperationMetric threw
    result,          \* what execute settled with
    \* ---- getCoreSystemPrompt ----
    envSystemMd,     \* process.env.GEMINI_SYSTEM_MD
    envWriteSystemMd,\* process.env.GEMINI_WRITE_SYSTEM_MD
    envSandbox,      \* process.env.SANDBOX
    isGitRepo,       \* isGitRepository(process.cwd())
    files,           \* the file system: path -> bytes, or NoFile
    cur,             \* the latest getCoreSystemPrompt call
    prev             \* the call before it

toolVars == <<wsDirs, ignorePatterns, pc, op, params, calls, validation, acq,
              metricFailed, result>>
promptVars == <<envSystemMd, envWriteSystemMd, envSandbox, isGitRepo, files, cur, prev>>
vars == <<toolVars, promptVars>>

(***************************************************************************)
(* JavaScript values: undefined, null, strings, booleans, objects.         *)
(***************************************************************************)
Undefined == [t |-> "undefined", v |-> <<>>]
Null == [t |-> "null", v |-> <<>>]
Str(s) == [t |-> "string", v |-> s]
True == [t |-> "boolean", v |-> <<"true">>]
False == [t |-> "boolean", v |-> <<"false">>]
InlineData == [t |-> "object", v |-> <<"inlineData">>]

\* JavaScript truthiness, as `if (x)`, `x && y`, `x || y` and `x ? a : b` read it.
Truthy(x) ==
    CASE x.t = "string" -> x.v # <<>>
      [] x.t = "boolean" -> x.v = <<"true">>
      [] x.t = "object" -> TRUE
      [] OTHER -> FALSE

\* x || y
OrElse(x, y) == IF Truthy(x) THEN x ELSE y

\* Array.prototype.join
RECURSIVE Join(_, _)
Join(list, sep) ==
    IF list = <<>> THEN <<>>
    ELSE IF Len(list) = 1 THEN list[1]
    ELSE list[1] \o sep \o Join(Tail(list), sep)

\* how many times x occurs in the sequence s
RECURSIVE Count(_, _)
Count(s, x) ==
    IF s = <<>> THEN 0
    ELSE (IF s[1] = x THEN 1 ELSE 0) + Count(Tail(s), x)

\* the index of the first x in s, 0 when there is none
RECURSIVE IndexOf(_, _)
IndexOf(s, x) ==
    IF s = <<>> THEN 0
    ELSE IF s[1] = x THEN 1
    ELSE LET r == IndexOf(Tail(s), x) IN IF r = 0 THEN 0 ELSE r + 1

(***************************************************************************)
(* Paths (posix): tokens are "/", a directory or file stem, an extension.  *)
(***************************************************************************)
ExtTokens == {".ts"}
MkPath(abs, dir, stem, ext) ==
    (IF abs THEN <<"/">> ELSE <<>>) \o <<dir, "/", stem>> \o ext
Paths ==
    {MkPath(abs, dir, stem, ext) :
        abs \in BOOLEAN, dir \in {"w", "o"}, stem \in {"a", "i"}, ext \in {<<>>, <<".ts">>}}

\* the index of the last "/" token of p, 0 when there is none
RECURSIVE LastSlash(_)
LastSlash(p) ==
    IF p = <<>> THEN 0
    ELSE IF p[Len(p)] = "/" THEN Len(p)
    ELSE LastSlash(SubSeq(p, 1, Len(p) - 1))

\* path.isAbsolute
isAbsolute(p) == p # <<>> /\ p[1] = "/"

\* path.basename
basename(p) == SubSeq(p, LastSlash(p) + 1, Len(p))

\* path.extname: the extension of the base name, "" when the base name has none
extname(p) ==
    LET b == basename(p) IN
    IF Len(b) > 1 /\ b[Len(b)] \in ExtTokens THEN <<b[Len(b)]>> ELSE <<>>

\* whether pre is a prefix of p
IsPrefix(pre, p) == Len(pre) <= Len(p) /\ SubSeq(p, 1, Len(pre)) = pre

\* config.getTargetDir()
TargetDir == <<"/", "w">>
OtherDir == <<"/", "o">>

\* makeRelative(targetPath, rootDirectory): path.relative, "." when empty
makeRelative(p, root) ==
    IF p = root THEN <<".">>
    ELSE IF IsPrefix(root \o <<"/">>, p) THEN SubSeq(p, Len(root) + 2, Len(p))
    ELSE <<"..">> \o p

\* workspaceContext.isPathWithinWorkspace
isPathWithinWorkspace(p, dirs) ==
    \E i \in DOMAIN dirs : p = dirs[i] \/ IsPrefix(dirs[i] \o <<"/">>, p)

\* fileService.shouldGeminiIgnoreFile
shouldGeminiIgnoreFile(p, patterns) ==
    \E i \in DOMAIN p : p[i] \in patterns

(***************************************************************************)
(* SummarizeFileTool.validateToolParams                                    *)
(***************************************************************************)
ParamObjects ==
    [absolute_path : {Undefined} \cup {Str(p) : p \in Paths},
     snippets : {Undefined, True, False},
     name_only : {Undefined, True, False, Str(<<"yes">>)}]

\* SchemaValidator.validate(this.schema.parameters, params)
SchemaValidate(p) ==
    IF p.absolute_path.t # "string"
    THEN Str(<<"params must have required property 'absolute_path'">>)
    ELSE IF p.snippets.t \notin {"undefined", "boolean"}
    THEN Str(<<"params/snippets must be boolean">>)
    ELSE IF p.name_only.t \notin {"undefined", "boolean"}
    THEN Str(<<"params/name_only must be boolean">>)
    ELSE Null

NotAbsoluteMsg(filePath) ==
    Str(<<"File path must be absolute, but was relative: ">> \o filePath
        \o <<". You must provide an absolute path.">>)
NotInWorkspaceMsg(directories) ==
    Str(<<"File path must be within one of the workspace directories: ">>
        \o Join(directories, <<", ">>))
IgnoredMsg(filePath) ==
    Str(<<"File path '">> \o filePath \o <<"' is ignored by .geminiignore pattern(s).">>)

\* A variant that consults the file service before the workspace context.
validateToolParams_ignoreFirst(p, dirs, patterns) ==
    LET errors == SchemaValidate(p) IN
    IF Truthy(errors)
    THEN [value |-> errors, log |-> <<"SchemaValidator.validate">>]
    ELSE
    LET filePath == p.absolute_path.v IN
    IF ~isAbsolute(filePath)
    THEN [value |-> NotAbsoluteMsg(filePath),
          log |-> <<"SchemaValidator.validate", "path.isAbsolute">>]
    ELSE IF shouldGeminiIgnoreFile(filePath, patterns)
    THEN [value |-> IgnoredMsg(filePath),
          log |-> <<"SchemaValidator.validate", "path.isAbsolute",
                    "shouldGeminiIgnoreFile">>]
    ELSE IF ~isPathWithinWorkspace(filePath, dirs)
    THEN [value |-> NotInWorkspaceMsg(dirs),
          log |-> <<"SchemaValidator.validate", "path.isAbsolute",
                    "shouldGeminiIgnoreFile", "isPathWithinWorkspace",
                    "getDirectories">>]
    ELSE [value |-> Null,
          log |-> <<"SchemaValidator.validate", "path.isAbsolute",
                    "shouldGeminiIgnoreFile", "isPathWithinWorkspace">>]

\* validateToolParams: the value it returns and the collaborator calls it makes, in
\* order.  Each check is reached only when the ones before it passed.
validateToolParams(p, dirs, patterns) ==
    LET errors == SchemaValidate(p) IN
    IF Truthy(errors)
    THEN [value |-> errors, log |-> <<"SchemaValidator.validate">>]
    ELSE
    LET filePath == p.absolute_path.v IN
    IF ~isAbsolute(filePath)
    THEN [value |-> NotAbsoluteMsg(filePath),
          log |-> <<"SchemaValidator.validate", "path.isAbsolute">>]
    ELSE IF ~isPathWithinWorkspace(filePath, dirs)
    THEN [value |-> NotInWorkspaceMsg(dirs),
          log |-> <<"SchemaValidator.validate", "path.isAbsolute",
                    "isPathWithinWorkspace", "getDirectories">>]
    ELSE IF shouldGeminiIgnoreFile(filePath, patterns)
    THEN [value |-> IgnoredMsg(filePath),
          log |-> <<"SchemaValidator.validate", "path.isAbsolute",
                    "isPathWithinWorkspace", "shouldGeminiIgnoreFile">>]
    ELSE [value |-> Null,
          log |-> <<"SchemaValidator.validate", "path.isAbsolute",
                    "isPathWithinWorkspace", "shouldGeminiIgnoreFile">>]

(***************************************************************************)
(* SummarizeFileTool.execute                                               *)
(***************************************************************************)
NoResult == [kind |-> "none", llmContent |-> Undefined, returnDisplay |-> Undefined]
Return(llm, display) == [kind |-> "return", llmContent |-> llm, returnDisplay |-> display]
Rejected == [kind |-> "throw", llmContent |-> Undefined, returnDisplay |-> Undefined]

\* what processSingleFileContent may resolve with
NoAcq == [llmContent |-> Undefined, returnDisplay |-> Undefined, error |-> Undefined]
AcquireResults ==
    [llmContent : {Str(<<"l1", "\n", "l2">>), Str(<<>>), InlineData},
     returnDisplay : {Str(<<"Read file">>), Str(<<>>)},
     error : {Undefined, Str(<<"File not found">>)}]

\* A variant that displays a fixed text instead of the reason.
InvalidParamsResult_fixedDisplay(validationError) ==
    Return(Str(<<"Error: Invalid parameters provided. Reason: ">> \o validationError.v),
           Str(<<"Invalid parameters">>))

InvalidParamsResult(validationError) ==
    Return(Str(<<"Error: Invalid parameters provided. Reason: ">> \o validationError.v),
           validationError)

NameOnlyResult(p) ==
    LET relativePath == makeRelative(p.absolute_path.v, TargetDir)
        fileName == basename(p.absolute_path.v)
        fileExtension == extname(p.absolute_path.v)
    IN Return(Str(<<"File: ">> \o relativePath \o <<"\n", "Name: ">> \o fileName
                  \o <<"\n", "Extension: ">> \o fileExtension),
              Str(<<"File info: ">> \o fileName))

AcquireErrorResult(r) ==
    Return(r.error, OrElse(r.returnDisplay, Str(<<"Error reading file">>)))

ContentResult(p, r) ==
    LET llmContent ==
            IF Truthy(p.snippets) /\ r.llmContent.t = "string"
            THEN Str(<<"[Relevant snippets from ">>
                     \o makeRelative(p.absolute_path.v, TargetDir)
                     \o <<"]", "\n", "\n">> \o r.llmContent.v)
            ELSE r.llmContent
    IN Return(OrElse(llmContent, Str(<<>>)), OrElse(r.returnDisplay, Str(<<>>)))

\* A variant in which snippets takes precedence over name_only.
TakesNameOnly_unlessSnippets(p) == Truthy(p.name_only) /\ ~Truthy(p.snippets)

\* whether execute takes the name_only fast path
TakesNameOnly(p) == Truthy(p.name_only)

\* A variant that tests for missing content instead of the error field.
IsAcquireError_byContent(r) == ~Truthy(r.llmContent)

\* whether execute treats the acquisition result as an error
IsAcquireError(r) == Truthy(r.error)

\* execute up to its first suspension: validation, the name_only fast path, and the
\* call of processSingleFileContent, at whose await the call is suspended
ExecuteStart(p) ==
    /\ pc = "idle"
    /\ LET v == validateToolParams(p, wsDirs, ignorePatterns) IN
       /\ op' = "execute"
       /\ params' = p
       /\ validation' = v.value
       /\ acq' = NoAcq
       /\ metricFailed' = FALSE
       /\ IF Truthy(v.value)
          THEN /\ calls' = v.log
               /\ result' = InvalidParamsResult(v.value)
               /\ pc' = "done"
          ELSE IF TakesNameOnly(p)
          THEN /\ calls' = v.log \o <<"makeRelative">>
               /\ result' = NameOnlyResult(p)
               /\ pc' = "done"
          ELSE /\ calls' = v.log \o <<"processSingleFileContent">>
               /\ result' = NoResult
               /\ pc' = "acquiring"
    /\ UNCHANGED <<wsDirs, ignorePatterns, promptVars>>

\* execute resumed with the acquisition result r; recordFileOperationMetric throws
\* when fails is TRUE, and nothing in execute catches it
ExecuteResume(r, fails) ==
    /\ pc = "acquiring"
    /\ acq' = r
    /\ pc' = "done"
    /\ IF IsAcquireError(r)
       THEN /\ result' = AcquireErrorResult(r)
            /\ calls' = calls
            /\ metricFailed' = FALSE
       ELSE /\ calls' = calls \o <<"getSpecificMimeType", "recordFileOperationMetric">>
            /\ metricFailed' = fails
            /\ result' = IF fails THEN Rejected ELSE ContentResult(params, r)
    /\ UNCHANGED <<wsDirs, ignorePatterns, op, params, validation, promptVars>>

\* a direct call of validateToolParams
ValidateCall(p) ==
    /\ pc = "idle"
    /\ LET v == validateToolParams(p, wsDirs, ignorePatterns) IN
       /\ op' = "validate"
       /\ params' = p
       /\ validation' = v.value
       /\ calls' = v.log
    /\ pc' = "done"
    /\ acq' = NoAcq
    /\ metricFailed' = FALSE
    /\ result' = NoResult
    /\ UNCHANGED <<wsDirs, ignorePatterns, promptVars>>

NoParams == [absolute_path |-> Undefined, snippets |-> Undefined, name_only |-> Undefined]

\* the caller takes the settled value; the tool holds no state between calls
Settle ==
    /\ pc = "done"
    /\ pc' = "idle"
    /\ op' = "none"
    /\ calls' = <<>>
    /\ validation' = Null
    /\ acq' = NoAcq
    /\ metricFailed' = FALSE
    /\ result' = NoResult
    /\ params' = NoParams
    /\ UNCHANGED <<wsDirs, ignorePatterns, promptVars>>

(***************************************************************************)
(* getCoreSystemPrompt                                                     *)
(***************************************************************************)
\* String.prototype.toLowerCase, one character at a time
LowerChar(c) ==
    CASE c = "A" -> "a" [] c = "E" -> "e" [] c = "F" -> "f" [] c = "L" -> "l"
      [] c = "P" -> "p" [] c = "R" -> "r" [] c = "S" -> "s" [] c = "T" -> "t"
      [] c = "U" -> "u" [] OTHER -> c
toLowerCase(s) == [i \in DOMAIN s |-> LowerChar(s[i])]

\* process.env.X?.toLowerCase()
OptLower(x) == IF x.t = "string" THEN Str(toLowerCase(x.v)) ELSE Undefined

\* String.prototype.trim
Whitespace == {" ", "\n", "\t"}
RECURSIVE TrimStart(_)
TrimStart(s) ==
    IF s # <<>> /\ s[1] \in Whitespace THEN TrimStart(Tail(s)) ELSE s
RECURSIVE TrimEnd(_)
TrimEnd(s) ==
    IF s # <<>> /\ s[Len(s)] \in Whitespace
    THEN TrimEnd(SubSeq(s, 1, Len(s) - 1)) ELSE s
Trim(s) == TrimEnd(TrimStart(s))

\* process.cwd()
Cwd == <<"/", "w">>

\* path.resolve of one argument
Resolve(p) ==
    IF p = <<>> THEN Cwd
    ELSE IF isAbsolute(p) THEN p
    ELSE Cwd \o <<"/">> \o p

\* path.resolve(path.join(GEMINI_CONFIG_DIR, 'system.md'))
DefaultSystemMdPath == Resolve(<<".qwen", "/", "system.md">>)

\* the values the two switches take
SwitchTexts ==
    {<<>>, <<"0">>, <<"1">>,
     <<"f", "a", "l", "s", "e">>, <<"F", "A", "L", "S", "E">>,
     <<"t", "r", "u", "e">>, <<"T", "r", "u", "e">>,
     <<"/", "p">>, <<"/", "P">>, <<"q">>}
SwitchValues == {Undefined} \cup {Str(s) : s \in SwitchTexts}

\* the files of the model's file system
FilePaths == {DefaultSystemMdPath, <<"/", "p">>, <<"/", "P">>, <<"/", "w", "/", "q">>}
NoFile == <<"<no file>">>
NoPath == <<"<no path>">>

\* UTF-8 decoding, as fs.readFileSync(path, 'utf8') does it: a byte that is not
\* valid UTF-8 becomes U+FFFD
Utf8Decode(bytes) ==
    [i \in DOMAIN bytes |-> IF bytes[i] = "0xFF" THEN "U+FFFD" ELSE bytes[i]]
\* A variant that writes a byte-order mark first.
Utf8Encode_withBom(text) ==
    <<"U+FEFF">> \o [i \in DOMAIN text |-> IF text[i] = "U+D800" THEN "U+FFFD" ELSE text[i]]

\* UTF-8 encoding, as fs.writeFileSync(path, string) does it: a lone surrogate is
\* written as U+FFFD
Utf8Encode(text) ==
    [i \in DOMAIN text |-> IF text[i] = "U+D800" THEN "U+FFFD" ELSE text[i]]

existsSync(fs, path) == path \in DOMAIN fs /\ fs[path] # NoFile
readFileSync(fs, path) == Utf8Decode(fs[path])
writeFileSync(fs, path, text) ==
    [f \in DOMAIN fs \cup {path} |-> IF f = path THEN Utf8Encode(text) ELSE fs[f]]

\* the sandbox fragment of the built-in template
SandboxFragment(sandbox) ==
    IF sandbox = Str(<<"sandbox-exec">>)
    THEN <<"\n", "# MacOS Seatbelt", "\n", "You are running under macos seatbelt ...">>
    ELSE IF Truthy(sandbox)
    THEN <<"\n", "# Sandbox", "\n", "You are running in a sandbox container ...">>
    ELSE <<"\n", "# Outside of Sandbox", "\n", "You are running outside of a sandbox. ...">>

\* the git fragment of the built-in template
GitFragment(git) ==
    IF git
    THEN <<"\n", "# Git Repository", "\n", "- The current directory is a git repository. ...",
           "\n">>
    ELSE <<>>

\* the closing line of the last example
GitQuestion(git) ==
    IF git THEN <<"Would you like me to commit these changes?">> ELSE <<>>

\* the built-in template: the literal, its interpolations, .trim()
BuiltInPrompt(sandbox, git) ==
    Trim(<<"\n", "You are an interactive CLI agent ... ## Interaction Details ...",
           "\n", "\n">>
         \o SandboxFragment(sandbox) \o <<"\n", "\n">>
         \o GitFragment(git) \o <<"\n", "\n", "# Examples ... All checks passed.", "\n">>
         \o GitQuestion(git)
         \o <<"\n", "</example>", "\n", "\n", "# Final Reminder ...", "\n">>)

\* A variant that compares the switch as given, without lower-casing the test.
SystemMdEnabled_noEmptyTest(systemMdVar) ==
    systemMdVar.t = "string"
    /\ systemMdVar.v \notin {<<"0">>, <<"f", "a", "l", "s", "e">>}

\* systemMdVar && !['0', 'false'].includes(systemMdVar)
SystemMdEnabled(systemMdVar) ==
    Truthy(systemMdVar)
    /\ systemMdVar.v \notin {<<"0">>, <<"f", "a", "l", "s", "e">>}

\* systemMdPath after the override block
SystemMdPath(systemMdVar) ==
    IF SystemMdEnabled(systemMdVar)
       /\ systemMdVar.v \notin {<<"1">>, <<"t", "r", "u", "e">>}
    THEN Resolve(systemMdVar.v)
    ELSE DefaultSystemMdPath

\* the file the write switch names, NoPath when it is off
WritePath(writeSystemMdVar, systemMdPath) ==
    IF Truthy(writeSystemMdVar)
       /\ writeSystemMdVar.v \notin {<<"0">>, <<"f", "a", "l", "s", "e">>}
    THEN IF writeSystemMdVar.v \in {<<"1">>, <<"t", "r", "u", "e">>}
         THEN systemMdPath
         ELSE Resolve(writeSystemMdVar.v)
    ELSE NoPath

\* A variant that writes the returned text, memory suffix included.
WrittenText_withSuffix(basePrompt, memorySuffix) == basePrompt \o memorySuffix

\* the text the write switch writes
WrittenText(basePrompt, memorySuffix) == basePrompt

\* A variant that appends the memory without the separator's rule.
MemorySuffix_noRule(userMemory) ==
    IF Truthy(userMemory) /\ Len(Trim(userMemory.v)) > 0
    THEN <<"\n", "\n">> \o Trim(userMemory.v)
    ELSE <<>>

\* memorySuffix
MemorySuffix(userMemory) ==
    IF Truthy(userMemory) /\ Len(Trim(userMemory.v)) > 0
    THEN <<"\n", "\n", "-", "-", "-", "\n", "\n">> \o Trim(userMemory.v)
    ELSE <<>>

\* basePrompt
BasePrompt(enabled, fs, systemMdPath, sandbox, git) ==
    IF enabled THEN readFileSync(fs, systemMdPath) ELSE BuiltInPrompt(sandbox, git)

NoCall ==
    [made |-> FALSE, sys |-> Undefined, wr |-> Undefined, mem |-> Undefined,
     threw |-> FALSE, text |-> <<>>, systemMdEnabled |-> FALSE,
     systemMdPath |-> NoPath, writePath |-> NoPath, before |-> <<>>, after |-> <<>>]

\* One call of getCoreSystemPrompt(userMemory) in the environment (sys, wr,
\* sandbox, git) over the file system fs: what it returns or throws, its locals,
\* and the file system it leaves.
CallOf(sys, wr, sandbox, git, fs, userMemory) ==
    LET systemMdVar == OptLower(sys)
        systemMdEnabled == SystemMdEnabled(systemMdVar)
        systemMdPath == SystemMdPath(systemMdVar)
        writePath == WritePath(OptLower(wr), systemMdPath)
        basePrompt == BasePrompt(systemMdEnabled, fs, systemMdPath, sandbox, git)
        memorySuffix == MemorySuffix(userMemory)
        common == [made |-> TRUE, sys |-> sys, wr |-> wr, mem |-> userMemory,
                   systemMdEnabled |-> systemMdEnabled, systemMdPath |-> systemMdPath,
                   before |-> fs]
    IN IF systemMdEnabled /\ ~existsSync(fs, systemMdPath)
       THEN common @@ [threw |-> TRUE, text |-> <<>>, writePath |-> NoPath, after |-> fs]
       ELSE common @@
            [threw |-> FALSE,
             text |-> basePrompt \o memorySuffix,
             writePath |-> writePath,
             after |-> IF writePath = NoPath THEN fs
                       ELSE writeFileSync(fs, writePath,
                                          WrittenText(basePrompt, memorySuffix))]

\* getCoreSystemPrompt(userMemory)
GetCoreSystemPrompt(userMemory) ==
    LET c == CallOf(envSystemMd, envWriteSystemMd, envSandbox, isGitRepo, files, userMemory)
    IN /\ cur' = c
       /\ prev' = cur
       /\ files' = c.after
       /\ UNCHANGED <<envSystemMd, envWriteSystemMd, envSandbox, isGitRepo, toolVars>>

\* The operator points the read switch at what the write switch names: sets
\* GEMINI_SYSTEM_MD to the value GEMINI_WRITE_SYSTEM_MD has.
PointOverrideAtWrittenFile ==
    /\ envSystemMd # envWriteSystemMd
    /\ envSystemMd' = envWriteSystemMd
    /\ UNCHANGED <<envWriteSystemMd, envSandbox, isGitRepo, files, cur, prev, toolVars>>

PromptIdle ==
    /\ envSystemMd = Undefined
    /\ envWriteSystemMd = Undefined
    /\ envSandbox = Undefined
    /\ isGitRepo = FALSE
    /\ files = [f \in FilePaths |-> NoFile]
    /\ cur = NoCall
    /\ prev = NoCall

ToolIdle ==
    /\ wsDirs = <<TargetDir>>
    /\ ignorePatterns = {}
    /\ pc = "idle"
    /\ op = "none"
    /\ params = NoParams
    /\ calls = <<>>
    /\ validation = Null
    /\ acq = NoAcq
    /\ metricFailed = FALSE
    /\ result = NoResult

SandboxValues == {Undefined, Str(<<"sandbox-exec">>), Str(<<"docker">>)}

\* the file systems a run starts from: each of three files is absent or holds an
\* operator's text; one of them holds a byte that is not valid UTF-8
InitialFiles ==
    {[f \in FilePaths |->
        IF f = DefaultSystemMdPath /\ d THEN <<"F">>
        ELSE IF f = <<"/", "p">> /\ lo THEN <<"G", "0xFF">>
        ELSE IF f = <<"/", "P">> /\ up THEN <<"H">>
        ELSE NoFile] : d \in BOOLEAN, lo \in BOOLEAN, up \in BOOLEAN}

InitPrompt ==
    /\ ToolIdle
    /\ envSystemMd \in SwitchValues
    /\ envWriteSystemMd \in SwitchValues
    /\ envSandbox \in SandboxValues
    /\ isGitRepo \in BOOLEAN
    /\ files \in InitialFiles
    /\ cur = NoCall
    /\ prev = NoCall

PromptMemories == {Undefined, Str(<<" ", "n">>)}

NextPrompt ==
    \/ \E m \in PromptMemories : GetCoreSystemPrompt(m)
    \/ PointOverrideAtWrittenFile

SpecPrompt == InitPrompt /\ [][NextPrompt]_vars

\* userMemory: absent, or a text of at most MaxMemLen characters
MaxMemLen == 2
MemChars == {" ", "n"}
RECURSIVE TextsUpTo(_)
TextsUpTo(n) ==
    IF n = 0 THEN {<<>>}
    ELSE LET shorter == TextsUpTo(n - 1)
         IN shorter \cup {Append(t, c) : t \in {u \in shorter : Len(u) = n - 1}, c \in MemChars}
Memories == {Undefined} \cup {Str(t) : t \in TextsUpTo(MaxMemLen)}

InitMemory ==
    /\ ToolIdle
    /\ envSystemMd \in {Undefined, Str(<<"1">>)}
    /\ envWriteSystemMd = Undefined
    /\ envSandbox \in SandboxValues
    /\ isGitRepo \in BOOLEAN
    /\ files \in {fs \in InitialFiles : fs[<<"/", "p">>] = NoFile /\ fs[<<"/", "P">>] = NoFile}
    /\ cur = NoCall
    /\ prev = NoCall

NextMemory == \E m \in Memories : GetCoreSystemPrompt(m)

SpecMemory == InitMemory /\ [][NextMemory]_vars

InitTool ==
    /\ wsDirs \in {<<TargetDir>>, <<TargetDir, OtherDir>>}
    /\ ignorePatterns \in {{}, {"i"}}
    /\ pc = "idle"
    /\ op = "none"
    /\ params = NoParams
    /\ calls = <<>>
    /\ validation = Null
    /\ acq = NoAcq
    /\ metricFailed = FALSE
    /\ result = NoResult
    /\ PromptIdle

NextTool ==
    \/ \E p \in ParamObjects : ExecuteStart(p)
    \/ \E r \in AcquireResults, fails \in BOOLEAN : ExecuteResume(r, fails)
    \/ \E p \in ParamObjects : ValidateCall(p)
    \/ Settle

SpecTool == InitTool /\ [][NextTool]_vars

(***************************************************************************)
(* Claims about SummarizeFileTool, checked under SpecTool.                 *)
(***************************************************************************)
Called == op \in {"validate", "execute"}
pathOf(p) == p.absolute_path.v
MadeCall(name) == Count(calls, name) > 0

\* The checks of the documented order that p fails, each judged on its own:
\* 1 schema, 2 absolute path, 3 workspace containment, 4 ignore pattern.  A check
\* on the path is judged only when the path is a string.
FailingChecks(p) ==
    {i \in 1..4 :
        \/ i = 1 /\ SchemaValidate(p) # Null
        \/ i = 2 /\ p.absolute_path.t = "string" /\ ~isAbsolute(pathOf(p))
        \/ i = 3 /\ p.absolute_path.t = "string"
                 /\ ~isPathWithinWorkspace(pathOf(p), wsDirs)
        \/ i = 4 /\ p.absolute_path.t = "string"
                 /\ shouldGeminiIgnoreFile(pathOf(p), ignorePatterns)}
FirstFailing(p) == CHOOSE i \in FailingChecks(p) : \A j \in FailingChecks(p) : i <= j
MessageOf(i, p) ==
    CASE i = 1 -> SchemaValidate(p)
      [] i = 2 -> NotAbsoluteMsg(pathOf(p))
      [] i = 3 -> NotInWorkspaceMsg(wsDirs)
      [] i = 4 -> IgnoredMsg(pathOf(p))

\* C1: validateToolParams returns the message of the first failing check in the
\* order schema, absolute path, workspace containment, ignore pattern, and null
\* only when all four pass; the workspace context is not queried once the schema
\* or the absolute-path check has failed, and the file service is not queried
\* once any earlier check has failed.
C1_FirstFailingCheckDecides ==
    Called =>
        /\ (validation = Null) <=> (FailingChecks(params) = {})
        /\ FailingChecks(params) # {} =>
             /\ validation = MessageOf(FirstFailing(params), params)
             /\ FirstFailing(params) < 3 =>
                  /\ ~MadeCall("isPathWithinWorkspace")
                  /\ ~MadeCall("getDirectories")
             /\ FirstFailing(params) < 4 => ~MadeCall("shouldGeminiIgnoreFile")
             /\ FirstFailing(params) < 2 => ~MadeCall("path.isAbsolute")

\* C1 witness: an absolute path outside the workspace that is also ignored was
\* validated, and the workspace message came back.
C1_Witness ==
    /\ Called
    /\ FailingChecks(params) = {3, 4}
    /\ validation = NotInWorkspaceMsg(wsDirs)

\* C2: whenever validateToolParams returns an error, execute returns normally
\* with returnDisplay exactly the reason and llmContent the reason behind the
\* fixed prefix, and neither processSingleFileContent nor
\* recordFileOperationMetric is called, whatever name_only and snippets are.
C2_ValidationErrorHaltsBeforeIO ==
    (op = "execute" /\ validation # Null) =>
        /\ pc = "done"
        /\ result.kind = "return"
        /\ result.returnDisplay = validation
        /\ result.llmContent =
             Str(<<"Error: Invalid parameters provided. Reason: ">> \o validation.v)
        /\ ~MadeCall("processSingleFileContent")
        /\ ~MadeCall("recordFileOperationMetric")
        /\ ~MadeCall("makeRelative")

\* C2 witness: execute was called with name_only and snippets both true on a path
\* that fails validation.
C2_Witness ==
    /\ op = "execute"
    /\ validation # Null
    /\ params.name_only = True
    /\ params.snippets = True
    /\ result.returnDisplay = validation

Lines(s) == Count(s, "\n") + 1

\* C3: an execute call with name_only true makes no content-acquisition call and
\* records no metric, also with snippets true; when validation passes it returns
\* the three lines File: <relative path>, Name: <base name>, Extension:
\* <extension> (for paths whose names hold no line break).
C3_NameOnlyReadsNothing ==
    (op = "execute" /\ params.name_only = True) =>
        /\ pc = "done"
        /\ ~MadeCall("processSingleFileContent")
        /\ ~MadeCall("recordFileOperationMetric")
        /\ validation = Null =>
             /\ result.kind = "return"
             /\ result.llmContent.t = "string"
             /\ Lines(result.llmContent.v) = 3
             /\ result.llmContent.v =
                  <<"File: ">> \o makeRelative(pathOf(params), TargetDir)
                  \o <<"\n", "Name: ">> \o basename(pathOf(params))
                  \o <<"\n", "Extension: ">> \o extname(pathOf(params))

\* C3 witness: a valid call with name_only and snippets both true returned.
C3_Witness ==
    /\ op = "execute"
    /\ pc = "done"
    /\ params.name_only = True
    /\ params.snippets = True
    /\ validation = Null
    /\ result.kind = "return"

Metrics == Count(calls, "recordFileOperationMetric")

\* C4: per execute call the metric is emitted exactly once if content acquisition
\* was invoked and returned without an error, and not at all on every other path
\* (validation failure, name_only, acquisition error); never more than once, never
\* before the acquisition has completed; an acquisition error is returned as the
\* result with no metric recorded.
C4_OneMetricPerSuccessfulRead ==
    /\ Metrics <= 1
    /\ pc # "done" => Metrics = 0
    /\ Metrics = 1 =>
         /\ MadeCall("processSingleFileContent")
         /\ IndexOf(calls, "processSingleFileContent")
              < IndexOf(calls, "recordFileOperationMetric")
    /\ (op = "execute" /\ pc = "done") =>
         /\ Metrics = IF MadeCall("processSingleFileContent") /\ acq.error = Undefined
                      THEN 1 ELSE 0
         /\ (MadeCall("processSingleFileContent") /\ acq.error # Undefined) =>
              /\ result.kind = "return"
              /\ result.llmContent = acq.error

\* C4 witness: one call read its content and recorded one metric.
C4_Witness ==
    /\ op = "execute"
    /\ pc = "done"
    /\ acq.error = Undefined
    /\ Metrics = 1
    /\ result.kind = "return"

\* C4 second case, an acquisition error passed through with no metric, is reached
\* too.
C4_ErrorCaseReached ==
    /\ op = "execute"
    /\ pc = "done"
    /\ acq.error # Undefined
    /\ Metrics = 0

\* C5: a failure of recordFileOperationMetric does not propagate: execute still
\* returns the content result it would have returned had recording succeeded.
C5_TelemetryFailureDoesNotPropagate ==
    (op = "execute" /\ pc = "done" /\ metricFailed) =>
        result = ContentResult(params, acq)

(***************************************************************************)
(* Claims about getCoreSystemPrompt, checked under SpecPrompt (C6 to C9)   *)
(* and SpecMemory (C10).                                                   *)
(***************************************************************************)
\* the bytes of the file at path, NoFile when there is no such file
FileAt(fs, path) == IF path \in DOMAIN fs THEN fs[path] ELSE NoFile

\* a and b are the same text up to the case of their letters
LetterPairs ==
    {<<"A", "a">>, <<"E", "e">>, <<"F", "f">>, <<"L", "l">>, <<"P", "p">>,
     <<"R", "r">>, <<"S", "s">>, <<"T", "t">>, <<"U", "u">>}
SameUpToCase(a, b) ==
    /\ Len(a) = Len(b)
    /\ \A i \in DOMAIN a :
         a[i] = b[i] \/ <<a[i], b[i]>> \in LetterPairs \/ <<b[i], a[i]>> \in LetterPairs

ZeroText == <<"0">>
OneText == <<"1">>
FalseText == <<"f", "a", "l", "s", "e">>
TrueText == <<"t", "r", "u", "e">>

\* the switch value x is off: unset, empty, or 0 / false in any letter case
IsOff(x) ==
    \/ x = Undefined
    \/ x.v = <<>>
    \/ SameUpToCase(x.v, ZeroText)
    \/ SameUpToCase(x.v, FalseText)
\* the switch value x asks for the default location: 1 / true in any letter case
IsDefaultOn(x) == SameUpToCase(x.v, OneText) \/ SameUpToCase(x.v, TrueText)

\* the file an enabled read switch x makes the code read
ReadPathOf(x) ==
    IF IsDefaultOn(x) THEN DefaultSystemMdPath ELSE Resolve(toLowerCase(x.v))

C6_MissingFileReached ==
    /\ cur.made
    /\ cur.sys = Str(OneText)
    /\ cur.threw

\* ... and a call with the override enabled and its file present returned the file.
C6_FileReadReached ==
    /\ cur.made
    /\ cur.sys = Str(TrueText)
    /\ ~cur.threw
    /\ cur.text = <<"F">> \o MemorySuffix(cur.mem)

\* the switch is off as C6 was first stated: unset, "0" or "false"
IsOffAsStated(x) == x \in {Undefined, Str(ZeroText), Str(FalseText)}
\* the file an enabled switch names as first stated: the default location for
\* "1" / "true", otherwise the value itself
PathAsStated(x) ==
    IF x.v \in {OneText, TrueText} THEN DefaultSystemMdPath ELSE Resolve(x.v)

C7_SwitchesMirrorEachOther ==
    (cur.made /\ ~cur.threw) =>
        /\ ~IsOff(cur.sys) =>
             cur.systemMdPath =
                IF IsDefaultOn(cur.sys) THEN DefaultSystemMdPath ELSE Resolve(cur.sys.v)
        /\ ~IsOff(cur.wr) =>
             cur.writePath =
                IF IsDefaultOn(cur.wr) THEN DefaultSystemMdPath ELSE Resolve(cur.wr.v)
        /\ IsOff(cur.wr) => cur.writePath = NoPath

\* C8: after a call with the override off and the write switch enabled for P, a
\* following call with the read switch set to the same P (same git and sandbox
\* state, same memory) returns the text the first call returned.
C8_RoundTrip ==
    ( /\ cur.made /\ prev.made
      /\ IsOff(prev.sys) /\ ~IsOff(prev.wr)
      /\ cur.sys = prev.wr
      /\ cur.mem = prev.mem )
    => /\ ~prev.threw
       /\ ~cur.threw
       /\ cur.text = prev.text

\* C8 witness: the round trip through a custom path, with a memory suffix.
C8_Witness ==
    /\ cur.made /\ prev.made
    /\ IsOff(prev.sys)
    /\ prev.wr = Str(<<"/", "P">>)
    /\ cur.sys = prev.wr
    /\ cur.mem = Str(<<" ", "n">>)
    /\ cur.mem = prev.mem
    /\ cur.text = prev.text

\* C8, the default location: the round trip with the write switch at 1 is reached.
C8_DefaultPathReached ==
    /\ cur.made /\ prev.made
    /\ IsOff(prev.sys)
    /\ prev.wr = Str(OneText)
    /\ cur.sys = prev.wr
    /\ cur.mem = prev.mem
    /\ cur.text = prev.text

\* C9: two consecutive calls with the same switches, sandbox signal, git state and
\* memory return the same (or both throw), also when the first call's write
\* targets the file the override reads; and a call returns what it would return
\* with the write switch unset.
C9_Idempotent ==
    /\ cur.made =>
         LET unwritten == CallOf(cur.sys, Undefined, envSandbox, isGitRepo,
                                 cur.before, cur.mem)
         IN cur.threw = unwritten.threw /\ cur.text = unwritten.text
    /\ ( /\ cur.made /\ prev.made
         /\ cur.sys = prev.sys /\ cur.wr = prev.wr /\ cur.mem = prev.mem )
       => /\ cur.threw = prev.threw
          /\ cur.text = prev.text

\* C9 witness: the first of two identical calls rewrote the file the override
\* reads (its bytes changed), and the second returned the same text with memory.
C9_Witness ==
    /\ cur.made /\ prev.made
    /\ cur.sys = prev.sys /\ cur.wr = prev.wr /\ cur.mem = prev.mem
    /\ cur.mem = Str(<<" ", "n">>)
    /\ prev.systemMdEnabled
    /\ prev.writePath = prev.systemMdPath
    /\ prev.after # prev.before
    /\ ~cur.threw
    /\ cur.text = prev.text

\* the base template of the latest call: the override file's contents, or the
\* built-in template
BaseOf(c) ==
    IF ~IsOff(c.sys) THEN Utf8Decode(FileAt(c.before, ReadPathOf(c.sys)))
    ELSE BuiltInPrompt(envSandbox, isGitRepo)
Separator == <<"\n", "\n", "-", "-", "-", "\n", "\n">>
IsBlank(m) == m = Undefined \/ \A i \in DOMAIN m.v : m.v[i] \in Whitespace

\* t is m without its leading and trailing whitespace
IsTrimmed(t, m) ==
    \E i \in DOMAIN m, j \in DOMAIN m :
        /\ i <= j
        /\ t = SubSeq(m, i, j)
        /\ m[i] \notin Whitespace /\ m[j] \notin Whitespace
        /\ \A k \in DOMAIN m : (k < i \/ k > j) => m[k] \in Whitespace

\* C10 (as amended): for every base template, if userMemory is absent, empty or
\* whitespace-only the result is the base template unchanged; otherwise it is the
\* base template followed by a blank line, the marker ---, a blank line and the
\* memory text without its leading and trailing whitespace, and nothing else.
C10_MemorySuffix ==
    (cur.made /\ ~cur.threw) =>
        IF IsBlank(cur.mem)
        THEN cur.text = BaseOf(cur)
        ELSE \E n \in 1..Len(cur.mem.v) :
               LET t == SubSeq(cur.text, Len(cur.text) - n + 1, Len(cur.text))
               IN /\ IsTrimmed(t, cur.mem.v)
                  /\ cur.text = BaseOf(cur) \o Separator \o t

\* C10 witness: a memory with leading whitespace was appended, trimmed, to an
\* override file's contents.
C10_Witness ==
    /\ cur.made /\ ~cur.threw
    /\ cur.systemMdEnabled
    /\ cur.mem = Str(<<" ", "n">>)
    /\ cur.text = <<"F">> \o Separator \o <<"n">>

\* C10, the other cases: a whitespace-only memory left the built-in template
\* unchanged.
C10_BlankReached ==
    /\ cur.made /\ ~cur.threw
    /\ ~cur.systemMdEnabled
    /\ cur.mem = Str(<<" ">>)
    /\ cur.text = BuiltInPrompt(envSandbox, isGitRepo)

\* C10 as first stated: the text appended after the marker is the memory text.
C10_AsStated ==
    (cur.made /\ ~cur.threw) =>
        IF IsBlank(cur.mem)
        THEN cur.text = BaseOf(cur)
        ELSE cur.text = BaseOf(cur) \o Separator \o cur.mem.v

====
